---------------------------- MODULE Spec2Model ----------------------------
(***************************************************************************)
(* Block_Push_Control: the two push controllers, push_pid.py (reactive     *)
(* proportional pusher) and push_mpc.py (MPC pusher with re-engage lift),  *)
(* as one state machine.  A trial runs one of the two scripts; `variant`   *)
(* says which.  One step of the model is one iteration of the script's     *)
(* `while True` loop, or the CSV output that follows the loop.             *)
(*                                                                         *)
(* Fixed-point units: lengths in 0.1 mm (0.015 m = 150), forces in 1e-5 N  *)
(* (1e-4 = 10), velocities in 0.1 mm/s, time in 1/SubSec seconds.  The     *)
(* origin of coordinates is the cube's position at env.reset().  The       *)
(* simulation (env.step) and the wall clock are external: the observation  *)
(* returned by a step and the time that passes between two readings of the *)
(* clock are chosen nondeterministically from small sets.                  *)
(***************************************************************************)
EXTENDS Integers, Sequences, FiniteSets, TLC

VARIABLES
    variant,      \* "pid" (push_pid.py) or "mpc" (push_mpc.py)
    pc,           \* "loop" | "output" (loop left by break) | "done" | "crashed"
    now,          \* wall clock, time.time() - t0, in 1/SubSec s
    obs,          \* the last observation returned by env.reset()/env.step()
    elapsed,      \* the script's variable elapsed (None before its first assignment)
    next_sample,  \* seconds
    samples,      \* sequence of <<sec, err>>
    t_finish,     \* None or the elapsed time stored
    status,
    phase,        \* push_pid.py only
    stall_buf,    \* push_pid.py only
    push_n,       \* push_pid.py: the iterations run in push since push was
                  \* entered, counted up to the capacity of the stall window
    state,        \* push_mpc.py only
    prev_xy,      \* push_mpc.py only
    act,          \* act[:3] of the last action sent to env.step (<<>> before)
    branch,       \* the branch the last loop iteration took
    n_step,       \* the env.step calls the last loop iteration made
    env,          \* "any": env.step returns any observation of the variant's set;
                  \* "ideal": the end effector moves by the commanded delta, the
                  \* cube stays where it is and nothing is touched
    line          \* the CSV line printed (<<>> before)

vars == <<variant, pc, now, obs, elapsed, next_sample, samples, t_finish,
          status, phase, stall_buf, push_n, state, prev_xy, act, branch, n_step,
          env, line>>

\* Python's None, for the time-valued t_finish and elapsed
None == -1
\* the field "NaN" of the CSV line (the formatted times are >= 0)
NaN == -2

\* ------------------------------------------------------------------ bounds
\* time units per second (resolution of the wall clock in the model)
SubSec == 2
\* largest time, in 1/SubSec s, that passes between two readings of the clock
MaxDt == 3
\* push_pid.py:14 sets 180.0 s; scaled down, the sampling cadence stays 1 s
MAX_TIME == 2
\* push_mpc.py:36 sets 30.0 s; scaled down
TIMEOUT_SEC == 2
\* push_pid.py:29 sets 60 Hz; scaled down (stall window = STALL_TIME*control_freq)
control_freq == 2

\* ------------------------------------------------------------- constants
APPROACH_HEIGHT == 1500
BASE_OFFSET == 500
PUSH_VEL_MAX == 1500
PUSH_VEL_MIN == 500
FADE_DIST == 10
EXPONENT == 2
SPEED_XY == 1000
SPEED_Z == 1000
TOL_FINE == 150
STALL_TIME == 1
STALL_THRESH == 20
REAPP_THRESH == 1500
\* DAMP = 0.15, in hundredths
DAMP == 15
\* the literal 0.01 of `err <= 0.01`
FINISH_TOL == 100
\* the literal 0.005 of the PID approach test, 0.0008 of the PID lower test
PID_APPROACH_TOL == 50
PID_LOWER_TOL == 8
\* TABLE_Z = cube_xyz[2]: the origin is the cube's initial position
TABLE_Z == 0
\* push_mpc.py
APPROACH_H == 1500
LIFT_H == 600
BASE_OFF == 500
PALM_Z_OFF == -20
SEEK_VEL == 300
\* U_MAX = 3 m/s^2, V_MAX = 0.4 m/s, DT = 1/INV_DT s
U_MAX == 30000
V_MAX == 4000
INV_DT == 60
\* the literals 0.004, 0.002 and 1e-4 of the MPC approach/seek_lift, lower and contact tests
MPC_POSE_TOL == 40
MPC_LOWER_TOL == 20
CONTACT_THRESH == 10

GOAL_XY == <<0 + 1500, 0 - 1000>>
WRIST_Z_PID == TABLE_Z + 10
WRIST_Z_MPC == TABLE_Z + PALM_Z_OFF

\* ---------------------------------------------------------------- numpy
\* F(x) with x evaluated once: a bound variable holds a value, while an operator
\* argument is an expression that is evaluated again at each of its uses
Once(x, F(_)) == CHOOSE r \in {F(y) : y \in {x}} : TRUE

Abs(x) == IF x < 0 THEN -x ELSE x

Max(a, b) == IF a >= b THEN a ELSE b

RECURSIVE Pow(_, _)
Pow(x, n) == IF n = 0 THEN 1 ELSE x * Pow(x, n - 1)

\* a / b rounded toward zero (the fixed-point image of float division)
Quot(a, b) == IF (a >= 0) = (b > 0) THEN Abs(a) \div Abs(b) ELSE -(Abs(a) \div Abs(b))

\* np.clip on a scalar
Clip(x, lo, hi) == IF x < lo THEN lo ELSE IF x > hi THEN hi ELSE x

ClipVecOff(v, lo, hi) == v

\* np.clip on a vector
ClipVec(v, lo, hi) == [i \in DOMAIN v |-> Clip(v[i], lo, hi)]

RECURSIVE SqrtBetween(_, _, _)
SqrtBetween(n, lo, hi) ==
    IF lo >= hi THEN lo
    ELSE LET mid == (lo + hi + 1) \div 2
         IN  IF mid * mid <= n THEN SqrtBetween(n, mid, hi)
             ELSE SqrtBetween(n, lo, mid - 1)

\* floor of the square root
Sqrt(n) == Once(n, LAMBDA m : SqrtBetween(m, 0, 4096))

RECURSIVE SumSq(_, _)
SumSq(v, i) == IF i = 0 THEN 0 ELSE v[i] * v[i] + SumSq(v, i - 1)

\* np.linalg.norm, rounded down to the unit
Norm(v) == Once(v, LAMBDA w : Sqrt(SumSq(w, Len(w))))

Sub(a, b) == [i \in DOMAIN a |-> a[i] - b[i]]

Add(a, b) == [i \in DOMAIN a |-> a[i] + b[i]]

\* v * k / d, componentwise
Scale(v, k, d) == [i \in DOMAIN v |-> Quot(v[i] * k, d)]

XY(p) == <<p[1], p[2]>>

\* ------------------------------------------------------- per-tick values
\* err_vec = GOAL_XY - cube_xy ; err = norm(err_vec)
ErrVec(o) == Sub(GOAL_XY, o.cube)

Err(o) == Norm(ErrVec(o))

\* dir_u * k, dir_u = err_vec/(err+1e-9)
DirU(o, k) ==
    Once(Err(o), LAMBDA e : IF e = 0 THEN <<0, 0>> ELSE Scale(ErrVec(o), k, e))

\* ---------------------------------------------------------- metrics
RingAppendDropNewest(buf, x, cap) ==
    IF Len(buf) < cap THEN Append(buf, x) ELSE buf

\* deque(maxlen=...).append
RingAppend(buf, x, cap) ==
    IF Len(buf) < cap THEN Append(buf, x) ELSE Append(Tail(buf), x)

StallCap == STALL_TIME * control_freq

\* while elapsed >= next_sample: samples.append((int(next_sample), err)); next_sample += 1.0
RECURSIVE PidSampling(_, _, _, _)
PidSampling(smp, nxt, e, err) ==
    IF e >= nxt * SubSec
    THEN PidSampling(Append(smp, <<nxt, err>>), nxt + 1, e, err)
    ELSE [samples |-> smp, next_sample |-> nxt]

FinishBookkeepingLoose(tf, e, err) ==
    IF tf = None /\ err <= 2 * TOL_FINE THEN e ELSE tf

\* if t_finish is None and err <= 0.01: t_finish = elapsed
FinishBookkeeping(tf, e, err) ==
    IF tf = None /\ err <= FINISH_TOL THEN e ELSE tf

PidTimeoutGuard(e) == e > MAX_TIME * SubSec

SuccessCheck(err) == err < TOL_FINE

\* ------------------------------------------------------ observations
Absent == "absent"

Obs0 == [cube |-> <<0, 0>>, ee |-> <<-1000, 0, 1800>>, touch |-> Absent]

\* what env.step may return to push_pid.py
PidObs ==
    { [cube |-> <<1200, -600>>, ee |-> <<900, -200, 1500>>, touch |-> Absent],
      [cube |-> <<1200, -600>>, ee |-> <<900, -200, 20>>, touch |-> Absent],
      [cube |-> <<1212, -616>>, ee |-> <<912, -216, 20>>, touch |-> Absent],
      [cube |-> <<1200, -600>>, ee |-> <<-601, -200, 28>>, touch |-> Absent],
      [cube |-> <<1410, -880>>, ee |-> <<1100, -480, 20>>, touch |-> Absent],
      [cube |-> <<1428, -904>>, ee |-> <<1100, -480, 20>>, touch |-> Absent],
      [cube |-> <<1440, -920>>, ee |-> <<1100, -480, 20>>, touch |-> Absent] }

\* the observation after a step in which the end effector moves by exactly the
\* commanded delta a = act[:3] and the cube is neither moved nor touched
Moved(o, a) == [cube |-> o.cube, ee |-> Add(o.ee, a), touch |-> Absent]

\* obs, *_ = env.step(act): what the step may return, `any` being the set of
\* the observations of the variant
EnvStep(o, a, any) == IF env = "ideal" THEN {Moved(o, a)} ELSE any

\* -------------------------------------------------------------- Init
DefaultStatusUnset(v) == "running"

\* push_pid.py: status = "timeout" ; push_mpc.py: status = "success"
DefaultStatus(v) == IF v = "pid" THEN "timeout" ELSE "success"

\* the state when the loop is entered, env.reset() having returned one of `first`
Start(e, first) ==
    /\ variant \in {"pid", "mpc"}
    /\ pc = "loop"
    /\ now = 0
    /\ obs \in first
    /\ elapsed = None
    /\ next_sample = 1
    /\ samples = <<>>
    /\ t_finish = None
    /\ status = DefaultStatus(variant)
    /\ phase = "approach"
    /\ stall_buf = <<>>
    /\ push_n = 0
    /\ state = "approach"
    /\ prev_xy = obs.cube
    /\ act = <<>>
    /\ branch = "init"
    /\ n_step = 0
    /\ env = e
    /\ line = <<>>

Init == Start("any", {Obs0})

\* ------------------------------------------------------ push_pid.py
PidRunning == variant = "pid" /\ pc = "loop"

\* the iteration up to the success check, for a clock reading e
PidMetrics(e) ==
    LET err == Err(obs)
        s   == PidSampling(samples, next_sample, e, err)
    IN  /\ now' = e
        /\ elapsed' = e
        /\ samples' = s.samples
        /\ next_sample' = s.next_sample
        /\ t_finish' = FinishBookkeeping(t_finish, e, err)

PidTimeout(dt) ==
    /\ PidRunning
    /\ PidTimeoutGuard(now + dt)
    /\ now' = now + dt
    /\ elapsed' = now + dt
    /\ pc' = "output"
    /\ branch' = "timeout"
    /\ n_step' = 0
    /\ UNCHANGED <<variant, env, push_n, obs, next_sample, samples, t_finish, status, phase,
                   stall_buf, state, prev_xy, act, line>>

PidSuccess(dt) ==
    /\ PidRunning
    /\ ~PidTimeoutGuard(now + dt)
    /\ SuccessCheck(Err(obs))
    /\ PidMetrics(now + dt)
    /\ stall_buf' = RingAppend(stall_buf, Err(obs), StallCap)
    /\ status' = "success"
    /\ pc' = "output"
    /\ branch' = "success"
    /\ n_step' = 0
    /\ UNCHANGED <<variant, env, push_n, obs, phase, state, prev_xy, act, line>>

PidFallbackNoStep(tgt) ==
    /\ act' = ClipVec(Sub(tgt, obs.ee), -SPEED_XY, SPEED_XY)
    /\ obs' = obs
    /\ n_step' = 0

\* the fallback for approach / lower: clip(tgt - ee_pos), env.step
PidFallback(tgt) ==
    /\ act' = ClipVec(Sub(tgt, obs.ee), -SPEED_XY, SPEED_XY)
    /\ obs' \in EnvStep(obs, act', PidObs)
    /\ n_step' = 1

PidApproachTgt(o) ==
    LET d == DirU(o, BASE_OFFSET)
    IN  <<o.cube[1] - d[1], o.cube[2] - d[2], TABLE_Z + APPROACH_HEIGHT>>

PidApproachReached(o) ==
    Norm(Sub(o.ee, PidApproachTgt(o))) < PID_APPROACH_TOL

PidApproach(dt) ==
    /\ PidRunning
    /\ ~PidTimeoutGuard(now + dt)
    /\ ~SuccessCheck(Err(obs))
    /\ phase = "approach"
    /\ PidMetrics(now + dt)
    /\ stall_buf' = RingAppend(stall_buf, Err(obs), StallCap)
    /\ phase' = IF PidApproachReached(obs) THEN "lower" ELSE "approach"
    /\ PidFallback(PidApproachTgt(obs))
    /\ branch' = "approach"
    /\ UNCHANGED <<variant, env, push_n, pc, status, state, prev_xy, line>>

PidLowerTgt(o) == <<o.ee[1], o.ee[2], WRIST_Z_PID + 10>>

PidLowerReached(o) == Abs(o.ee[3] - PidLowerTgt(o)[3]) < PID_LOWER_TOL

StallBufKept(buf) == buf

\* stall_buf.clear(), on lower -> push
StallBufClear(buf) == <<>>

PidLower(dt) ==
    /\ PidRunning
    /\ ~PidTimeoutGuard(now + dt)
    /\ ~SuccessCheck(Err(obs))
    /\ phase = "lower"
    /\ PidMetrics(now + dt)
    /\ IF PidLowerReached(obs)
       THEN /\ phase' = "push"
            /\ stall_buf' = StallBufClear(RingAppend(stall_buf, Err(obs), StallCap))
       ELSE phase' = "lower"
            /\ stall_buf' = RingAppend(stall_buf, Err(obs), StallCap)
    /\ PidFallback(PidLowerTgt(obs))
    /\ push_n' = 0
    /\ branch' = "lower"
    /\ UNCHANGED <<variant, env, pc, status, state, prev_xy, line>>

\* lateral = norm(cube_xy - (ee_pos[:2] + dir_u*BASE_OFFSET))
Lateral(o) == Norm(Sub(o.cube, Add(XY(o.ee), DirU(o, BASE_OFFSET))))

ReapproachCheck(o) == Lateral(o) > REAPP_THRESH

StallCheckAnyLength(buf, err) == (buf[1] - err) < STALL_THRESH

StallCheckNoThreshold(buf, err) == Len(buf) = StallCap /\ (buf[1] - err) < 0

\* len(stall_buf)==stall_buf.maxlen and (stall_buf[0]-err)<STALL_THRESH
StallCheck(buf, err) == Len(buf) = StallCap /\ (buf[1] - err) < STALL_THRESH

PidReapproach(dt) ==
    /\ PidRunning
    /\ ~PidTimeoutGuard(now + dt)
    /\ ~SuccessCheck(Err(obs))
    /\ phase = "push"
    /\ ReapproachCheck(obs)
    /\ PidMetrics(now + dt)
    /\ stall_buf' = RingAppend(stall_buf, Err(obs), StallCap)
    /\ phase' = "approach"
    /\ push_n' = 0
    /\ branch' = "reapproach"
    /\ n_step' = 0
    /\ UNCHANGED <<variant, env, pc, obs, status, state, prev_xy, act, line>>

PidStall(dt) ==
    /\ PidRunning
    /\ ~PidTimeoutGuard(now + dt)
    /\ ~SuccessCheck(Err(obs))
    /\ phase = "push"
    /\ ~ReapproachCheck(obs)
    /\ StallCheck(RingAppend(stall_buf, Err(obs), StallCap), Err(obs))
    /\ PidMetrics(now + dt)
    /\ stall_buf' = RingAppend(stall_buf, Err(obs), StallCap)
    /\ phase' = "approach"
    /\ push_n' = 0
    /\ branch' = "stall"
    /\ n_step' = 0
    /\ UNCHANGED <<variant, env, pc, obs, status, state, prev_xy, act, line>>

\* fade = clip((err/FADE_DIST)**EXPONENT + DAMP, 0, 1), in hundredths
Fade(err) ==
    Clip(Quot(100 * Pow(err, EXPONENT), Pow(FADE_DIST, EXPONENT)) + DAMP, 0, 100)

\* fwd = max(PUSH_VEL_MAX*fade, PUSH_VEL_MIN if err>FADE_DIST else 0)
Fwd(err) ==
    Max(Quot(PUSH_VEL_MAX * Fade(err), 100),
        IF err > FADE_DIST THEN PUSH_VEL_MIN ELSE 0)

\* dxy = dir_u*fwd - 0.5*(cube_xy-ee_pos[:2]); dz = clip(WRIST_Z - ee_pos[2]);
\* dpos = clip(r_[dxy,dz])
PidPushDpos(o) ==
    LET f   == DirU(o, Fwd(Err(o)))
        dxy == <<f[1] - Quot(o.cube[1] - o.ee[1], 2),
                 f[2] - Quot(o.cube[2] - o.ee[2], 2)>>
        dz  == Clip(WRIST_Z_PID - o.ee[3], -SPEED_Z, SPEED_Z)
    IN  ClipVec(<<dxy[1], dxy[2], dz>>, -SPEED_XY, SPEED_XY)

PidPush(dt) ==
    /\ PidRunning
    /\ ~PidTimeoutGuard(now + dt)
    /\ ~SuccessCheck(Err(obs))
    /\ phase = "push"
    /\ ~ReapproachCheck(obs)
    /\ ~StallCheck(RingAppend(stall_buf, Err(obs), StallCap), Err(obs))
    /\ PidMetrics(now + dt)
    /\ stall_buf' = RingAppend(stall_buf, Err(obs), StallCap)
    /\ act' = PidPushDpos(obs)
    /\ obs' \in EnvStep(obs, act', PidObs)
    /\ n_step' = 1
    /\ push_n' = (IF push_n < StallCap THEN push_n + 1 ELSE push_n)
    /\ branch' = "push"
    /\ UNCHANGED <<variant, env, pc, status, phase, state, prev_xy, line>>

\* one iteration of the loop, the clock having advanced by dt since it was read
PidTick(dt) ==
    \/ PidTimeout(dt)
    \/ PidSuccess(dt)
    \/ PidApproach(dt)
    \/ PidLower(dt)
    \/ PidReapproach(dt)
    \/ PidStall(dt)
    \/ PidPush(dt)

PidNext == \E dt \in 0..MaxDt : PidTick(dt)

\* ------------------------------------------------------ push_mpc.py
\* what env.step may return to push_mpc.py
MpcObs ==
    { [cube |-> <<1200, -600>>, ee |-> <<900, -200, 1500>>, touch |-> Absent],
      [cube |-> <<1200, -600>>, ee |-> <<-601, -200, -10>>, touch |-> <<0, 0, 0>>],
      [cube |-> <<1200, -600>>, ee |-> <<900, -200, -20>>, touch |-> <<0, 0, 11>>],
      [cube |-> <<1212, -616>>, ee |-> <<912, -216, -20>>, touch |-> <<0, 0, 11>>],
      [cube |-> <<1200, -600>>, ee |-> <<900, -200, 600>>, touch |-> <<6, 8, 0>>],
      [cube |-> <<1410, -880>>, ee |-> <<1100, -480, -20>>, touch |-> <<0, 0, 11>>],
      [cube |-> <<1440, -920>>, ee |-> <<1100, -480, -20>>, touch |-> Absent] }

contactAbsentAsTouch(o) ==
    IF o.touch = Absent THEN CONTACT_THRESH + 1 ELSE Norm(o.touch)

\* contact = lambda o: 0.0 if o.get(...) is None else norm(o.get(...))
contact(o) == IF o.touch = Absent THEN 0 ELSE Norm(o.touch)

\* back_pose(cube_xy, height)
back_pose(o, height) ==
    LET d == DirU(o, BASE_OFF)
    IN  <<o.cube[1] - d[1], o.cube[2] - d[2], TABLE_Z + height>>

MpcRunning == variant = "mpc" /\ pc = "loop"

MpcTimeoutGuardLate(e) == e > (TIMEOUT_SEC + 1) * SubSec

MpcTimeoutGuard(e) == e > TIMEOUT_SEC * SubSec

MpcSamplingLabelElapsed(smp, nxt, e, err) ==
    IF e >= nxt * SubSec
    THEN [samples |-> Append(smp, <<e \div SubSec, err>>),
          next_sample |-> (e \div SubSec) + 1]
    ELSE [samples |-> smp, next_sample |-> nxt]

\* if elapsed >= next_sample: samples.append((int(next_sample), err)); next_sample += 1.0
MpcSampling(smp, nxt, e, err) ==
    IF e >= nxt * SubSec
    THEN [samples |-> Append(smp, <<nxt, err>>), next_sample |-> nxt + 1]
    ELSE [samples |-> smp, next_sample |-> nxt]

\* the iteration from the clock reading to the phase dispatch
MpcMetrics(e) ==
    LET err == Err(obs)
        s   == MpcSampling(samples, next_sample, e, err)
    IN  /\ now' = e
        /\ elapsed' = e
        /\ samples' = s.samples
        /\ next_sample' = s.next_sample
        /\ t_finish' = FinishBookkeeping(t_finish, e, err)

\* the guards passed by an iteration that reaches the phase dispatch
MpcDispatch(dt, st) ==
    /\ MpcRunning
    /\ ~SuccessCheck(Err(obs))
    /\ ~MpcTimeoutGuard(now + dt)
    /\ state = st
    /\ MpcMetrics(now + dt)

MpcSuccess(dt) ==
    /\ MpcRunning
    /\ SuccessCheck(Err(obs))
    /\ now' = now + dt
    /\ status' = "success"
    /\ pc' = "output"
    /\ branch' = "success"
    /\ n_step' = 0
    /\ UNCHANGED <<variant, env, push_n, obs, elapsed, next_sample, samples, t_finish, phase,
                   stall_buf, state, prev_xy, act, line>>

MpcTimeout(dt) ==
    /\ MpcRunning
    /\ ~SuccessCheck(Err(obs))
    /\ MpcTimeoutGuard(now + dt)
    /\ now' = now + dt
    /\ elapsed' = now + dt
    /\ status' = "timeout"
    /\ pc' = "output"
    /\ branch' = "timeout"
    /\ n_step' = 0
    /\ UNCHANGED <<variant, env, push_n, obs, next_sample, samples, t_finish, phase,
                   stall_buf, state, prev_xy, act, line>>

MpcPoseReachedInclusive(o, height) ==
    Norm(Sub(back_pose(o, height), o.ee)) <= MPC_POSE_TOL

\* np.linalg.norm(tgt - ee) < 0.004
MpcPoseReached(o, height) ==
    Norm(Sub(back_pose(o, height), o.ee)) < MPC_POSE_TOL

MpcApproach(dt) ==
    /\ MpcDispatch(dt, "approach")
    /\ act' = ClipVec(Sub(back_pose(obs, APPROACH_H), obs.ee), -SPEED_XY, SPEED_XY)
    /\ obs' \in EnvStep(obs, act', MpcObs)
    /\ n_step' = 1
    /\ state' = IF MpcPoseReached(obs, APPROACH_H) THEN "lower" ELSE "approach"
    /\ branch' = "approach"
    /\ UNCHANGED <<variant, env, push_n, pc, status, phase, stall_buf, prev_xy, line>>

MpcLowerTgt(o) == <<o.ee[1], o.ee[2], WRIST_Z_MPC>>

MpcLowerReached(o) == Abs(o.ee[3] - MpcLowerTgt(o)[3]) < MPC_LOWER_TOL

MpcLower(dt) ==
    /\ MpcDispatch(dt, "lower")
    /\ act' = ClipVec(Sub(MpcLowerTgt(obs), obs.ee), -SPEED_XY, SPEED_Z)
    /\ obs' \in EnvStep(obs, act', MpcObs)
    /\ n_step' = 1
    /\ state' = IF MpcLowerReached(obs) THEN "seek" ELSE "lower"
    /\ branch' = "lower"
    /\ UNCHANGED <<variant, env, push_n, pc, status, phase, stall_buf, prev_xy, line>>

MpcSeekLiftNextReengage(o) == IF MpcPoseReached(o, LIFT_H) THEN "mpc" ELSE "seek_lift"

\* if np.linalg.norm(tgt - ee) < 0.004: state = "seek"
MpcSeekLiftNext(o) == IF MpcPoseReached(o, LIFT_H) THEN "seek" ELSE "seek_lift"

MpcSeekLift(dt) ==
    /\ MpcDispatch(dt, "seek_lift")
    /\ act' = ClipVec(Sub(back_pose(obs, LIFT_H), obs.ee), -SPEED_XY, SPEED_Z)
    /\ obs' \in EnvStep(obs, act', MpcObs)
    /\ n_step' = 1
    /\ state' = MpcSeekLiftNext(obs)
    /\ branch' = "seek_lift"
    /\ UNCHANGED <<variant, env, push_n, pc, status, phase, stall_buf, prev_xy, line>>

\* act[:2] = dir_u * SEEK_VEL ; act[2] = clip(WRIST_Z - ee[2], -SPEED_Z, SPEED_Z)
MpcSeekAct(o) ==
    LET d == DirU(o, SEEK_VEL)
    IN  <<d[1], d[2], Clip(WRIST_Z_MPC - o.ee[3], -SPEED_Z, SPEED_Z)>>

ContactEstablishedCoarse(o) == contact(o) > 10 * CONTACT_THRESH

\* if contact(obs) > 1e-4, on the observation the step returned
ContactEstablished(o) == contact(o) > CONTACT_THRESH

\* if contact(obs) < 1e-4, on the observation the step returned
ContactLost(o) == contact(o) < CONTACT_THRESH

PrevXYStale(prev, cube_xy) == prev

\* prev_xy = cube_xy.copy(), cube_xy being the position read at the start of the
\* iteration
PrevXY(prev, cube_xy) == cube_xy

MpcSeek(dt) ==
    /\ MpcDispatch(dt, "seek")
    /\ act' = MpcSeekAct(obs)
    /\ obs' \in EnvStep(obs, act', MpcObs)
    /\ n_step' = 1
    /\ IF ContactEstablished(obs')
       THEN state' = "mpc" /\ prev_xy' = PrevXY(prev_xy, obs.cube)
       ELSE UNCHANGED <<state, prev_xy>>
    /\ branch' = "seek"
    /\ UNCHANGED <<variant, env, push_n, pc, status, phase, stall_buf, line>>

\* cube_v = (cube_xy - prev_xy)/DT
CubeV(o, prev) == [i \in 1..2 |-> (o.cube[i] - prev[i]) * INV_DT]

\* the accelerations a[:,0] the solver is offered in the model: the corners of
\* the box norm_inf(a[:,0]) <= U_MAX (if any a[:,0] is feasible, a corner is)
AccChoices == {<<ax, ay>> : ax \in {-U_MAX, U_MAX}, ay \in {-U_MAX, U_MAX}}

\* prob.solve ; v[:,1].value.  The first steps of the program's constraints:
\* v[:,0] == pv, v[:,1] == v[:,0] + a[:,0]*DT, norm_inf(a[:,0]) <= U_MAX,
\* norm_inf(v[:,1]) <= V_MAX.  The set of the values v[:,1] may take; empty when
\* the problem is infeasible (v[:,1].value is then None).
SolveV1(pv) ==
    { v \in { [i \in 1..2 |-> pv[i] + Quot(a[i], INV_DT)] : a \in AccChoices } :
        \A i \in 1..2 : Abs(v[i]) <= V_MAX }

\* dxy = clip(v_cmd*DT) ; act[2] = clip(WRIST_Z - ee[2])
MpcAct(o, v_cmd) ==
    LET dxy == ClipVec([i \in 1..2 |-> Quot(v_cmd[i], INV_DT)], -SPEED_XY, SPEED_XY)
    IN  <<dxy[1], dxy[2], Clip(WRIST_Z_MPC - o.ee[3], -SPEED_Z, SPEED_Z)>>

MpcMpc(dt) ==
    /\ MpcDispatch(dt, "mpc")
    /\ prev_xy' = PrevXY(prev_xy, obs.cube)
    /\ \E v_cmd \in SolveV1(CubeV(obs, prev_xy)) : act' = MpcAct(obs, v_cmd)
    /\ obs' \in EnvStep(obs, act', MpcObs)
    /\ n_step' = 1
    /\ state' = IF ContactLost(obs') THEN "seek_lift" ELSE "mpc"
    /\ branch' = "mpc"
    /\ UNCHANGED <<variant, env, push_n, pc, status, phase, stall_buf, line>>

\* v[:,1].value is None: v_cmd*DT raises TypeError, the script dies in the loop
MpcSolverFail(dt) ==
    /\ MpcDispatch(dt, "mpc")
    /\ SolveV1(CubeV(obs, prev_xy)) = {}
    /\ prev_xy' = PrevXY(prev_xy, obs.cube)
    /\ pc' = "crashed"
    /\ branch' = "solver_fail"
    /\ n_step' = 0
    /\ UNCHANGED <<variant, env, push_n, obs, status, phase, stall_buf, state, act, line>>

\* one iteration of the loop, the clock having advanced by dt since it was read
MpcTick(dt) ==
    \/ MpcSuccess(dt)
    \/ MpcTimeout(dt)
    \/ MpcApproach(dt)
    \/ MpcLower(dt)
    \/ MpcSeekLift(dt)
    \/ MpcSeek(dt)
    \/ MpcMpc(dt)
    \/ MpcSolverFail(dt)

MpcNext == \E dt \in 0..MaxDt : MpcTick(dt)

\* ------------------------------------------------------- CSV output
\* f"{x:.2f}" of a time: hundredths of a second, rounded
Fmt2(t) == (t * 200 + SubSec) \div (2 * SubSec)

\* f"{er:.3f}" of a length: millimetres, rounded
Fmt3(er) == (er + 5) \div 10

\* f"{t_finish:.2f}" if t_finish else "NaN"
FinishField(tf) == IF tf # None /\ tf # 0 THEN Fmt2(tf) ELSE NaN

\* f"{sec}s:{er:.3f}" for each sample
SampleFields(smp) == [i \in 1..Len(smp) |-> <<smp[i][1], Fmt3(smp[i][2])>>]

\* push_pid.py: impl, trial, total, finish, status, samples...
PidLine(total) ==
    <<"push_pid", "0", Fmt2(total), FinishField(t_finish), status>>
        \o SampleFields(samples)

\* push_mpc.py: impl, trial, total, status, finish, samples...
MpcLine(total) ==
    <<"push_mpc", "0", Fmt2(total), status, FinishField(t_finish)>>
        \o SampleFields(samples)

CSVOutput(dt) ==
    /\ pc = "output"
    /\ now' = now + dt
    /\ line' = IF variant = "pid" THEN PidLine(now + dt) ELSE MpcLine(now + dt)
    /\ pc' = "done"
    /\ UNCHANGED <<variant, env, push_n, obs, elapsed, next_sample, samples, t_finish, status,
                   phase, stall_buf, state, prev_xy, act, branch, n_step>>

Output == \E dt \in 0..1 : CSVOutput(dt)

Next == PidNext \/ MpcNext \/ Output

Spec == Init /\ [][Next]_vars

\* ------------------------------------------- approach, ideal motion
\* where the end effector starts relative to the standoff pose: 20 cm away
\* along an axis or obliquely, and at 4.0, 4.5 and 5.0 mm
ApproachStarts ==
    { <<2000, 0, 0>>, <<-1200, 1600, 0>>, <<0, -1200, 1600>>,
      <<24, 32, 0>>, <<27, 36, 0>>, <<30, 40, 0>> }

ApproachObs ==
    { [cube |-> Obs0.cube, ee |-> Add(PidApproachTgt(Obs0), d), touch |-> Absent] :
        d \in ApproachStarts }

ApproachInit == Start("ideal", ApproachObs)

\* the iterations of the phases approach and lower, and the timeout exit
ApproachNext ==
    \/ \E dt \in 0..MaxDt :
          \/ PidTimeout(dt)
          \/ PidApproach(dt)
          \/ PidLower(dt)
          \/ MpcTimeout(dt)
          \/ MpcApproach(dt)
          \/ MpcLower(dt)
    \/ Output

\* the script keeps running: an iteration that can be taken is taken
ApproachSpec == ApproachInit /\ [][ApproachNext]_vars /\ WF_vars(ApproachNext)

\* ------------------------------------------------------------ claims
\* the timeout budget of the running script, in clock units
Budget == IF variant = "pid" THEN MAX_TIME * SubSec ELSE TIMEOUT_SEC * SubSec

\* the status and finish-time fields of a printed CSV line
StatusField(l) == IF l[1] = "push_pid" THEN l[5] ELSE l[4]

FinishTimeField(l) == IF l[1] = "push_pid" THEN l[4] ELSE l[5]

\* C1: in both variants, a loop iteration that starts with err < TOL_FINE leaves
\* the loop in that iteration with status "success", whatever the elapsed time.
C1_SuccessExit ==
    [][(pc = "loop" /\ Err(obs) < TOL_FINE)
          => (pc' = "output" /\ status' = "success")]_vars

\* C2 as stated: an iteration whose elapsed wall time is above the budget leaves
\* the loop with status "timeout", whatever the error.
C2_TimeoutWhateverError ==
    [][(pc = "loop" /\ now' > Budget)
          => (pc' = "output" /\ status' = "timeout")]_vars

\* C2 amended: an iteration whose elapsed wall time is above the budget and whose
\* error is not below TOL_FINE leaves the loop with status "timeout", in any phase.
C2_TimeoutExit ==
    [][(pc = "loop" /\ now' > Budget /\ Err(obs) >= TOL_FINE)
          => (pc' = "output" /\ status' = "timeout")]_vars

C2_Witness ==
    /\ variant = "mpc" /\ state = "seek_lift"
    /\ pc = "output" /\ branch = "timeout" /\ status = "timeout"
    /\ elapsed > Budget /\ Err(obs) >= TOL_FINE

\* C3: the finish time is the elapsed time of the first iteration whose error is
\* <= 0.01 m, it is never overwritten, and the record reports it (2 dp).
C3_FinishTimeKept ==
    [][/\ (pc = "loop" /\ t_finish = None /\ Err(obs) <= FINISH_TOL)
              => t_finish' = now'
       /\ t_finish # None => t_finish' = t_finish
       /\ (pc = "output" /\ pc' = "done" /\ t_finish # None)
              => FinishTimeField(line') = Fmt2(t_finish)]_vars

\* C4: PID, phase push: an iteration that does not leave the loop and at which the
\* stall window is full with (oldest error - current error) < STALL_THRESH ends
\* in phase approach, whatever the end-effector position and the clock.
C4_StallForcesApproach ==
    [][(/\ variant = "pid" /\ pc = "loop" /\ pc' = "loop" /\ phase = "push"
        /\ Len(stall_buf') = StallCap
        /\ stall_buf'[1] - Err(obs) < STALL_THRESH)
          => phase' = "approach"]_vars

C4_Witness ==
    /\ variant = "pid" /\ pc = "loop" /\ branch = "stall" /\ phase = "approach"
    /\ Len(stall_buf) = StallCap
    /\ stall_buf[1] - stall_buf[StallCap] < STALL_THRESH
    /\ Lateral(obs) <= REAPP_THRESH

\* C5 as stated: MPC, an iteration started in seek or seek_lift whose step
\* returns a contact force above the threshold ends in neither seek nor seek_lift.
C5_ContactLeavesSeekAndLift ==
    [][(/\ variant = "mpc" /\ pc = "loop" /\ pc' = "loop"
        /\ state \in {"seek", "seek_lift"}
        /\ contact(obs') > CONTACT_THRESH)
          => state' \notin {"seek", "seek_lift"}]_vars

\* C5 amended: MPC, an iteration started in seek whose step returns a contact
\* force above the threshold ends in mpc; an iteration started in seek_lift does
\* not consult the contact force and ends in seek_lift or seek.
C5_ContactLeavesSeek ==
    [][/\ (/\ variant = "mpc" /\ pc = "loop" /\ pc' = "loop" /\ state = "seek"
           /\ contact(obs') > CONTACT_THRESH)
              => state' = "mpc"
       /\ (variant = "mpc" /\ state = "seek_lift")
              => state' \in {"seek_lift", "seek"}]_vars

C5_Witness ==
    /\ variant = "mpc" /\ pc = "loop" /\ branch = "seek" /\ state = "mpc"
    /\ contact(obs) > CONTACT_THRESH

\* C6: every action sent to env.step has |act[0]|, |act[1]| <= SPEED_XY and
\* |act[2]| <= SPEED_Z, in both variants and every phase.
C6_ActBounded ==
    act # <<>> =>
        /\ Abs(act[1]) <= SPEED_XY
        /\ Abs(act[2]) <= SPEED_XY
        /\ Abs(act[3]) <= SPEED_Z

\* an action whose first component the clip has cut to the limit
C6_Witness ==
    /\ act # <<>>
    /\ branch \in {"approach", "seek_lift"}
    /\ act[1] = SPEED_XY /\ Abs(act[3]) = SPEED_Z

\* C7: when the loop is left at elapsed wall time T, the samples are exactly those
\* of the seconds 1 .. floor(T).
C7_SamplesUpToFloorT ==
    pc = "output" =>
        /\ Len(samples) = now \div SubSec
        /\ \A i \in 1..Len(samples) : samples[i][1] = i

PidPhases == {"approach", "lower", "push"}

MpcPhases == {"approach", "lower", "seek", "seek_lift", "mpc"}

PidEdges == {<<"approach", "lower">>, <<"lower", "push">>, <<"push", "approach">>}

MpcEdges ==
    {<<"approach", "lower">>, <<"lower", "seek">>, <<"seek", "mpc">>,
     <<"mpc", "seek_lift">>, <<"seek_lift", "seek">>}

\* C8: the phase is always one of the variant's phases and changes only along
\* the edges of the transition table: push -> approach only on lateral deviation
\* or stall, seek -> mpc only on contact established, mpc -> seek_lift only on
\* contact lost.
C8_TransitionTable ==
    [][/\ phase' \in PidPhases /\ state' \in MpcPhases
       /\ phase' # phase => <<phase, phase'>> \in PidEdges
       /\ state' # state => <<state, state'>> \in MpcEdges
       /\ (phase = "push" /\ phase' = "approach")
              => \/ Lateral(obs) > REAPP_THRESH
                 \/ /\ Len(stall_buf') = StallCap
                    /\ stall_buf'[1] - Err(obs) < STALL_THRESH
       /\ (state = "seek" /\ state' = "mpc") => contact(obs') > CONTACT_THRESH
       /\ (state = "mpc" /\ state' = "seek_lift") => contact(obs') < CONTACT_THRESH
      ]_vars

\* a recovery cycle mpc -> seek_lift -> seek has been walked
C8_Witness ==
    /\ variant = "mpc" /\ pc = "loop" /\ branch = "seek_lift" /\ state = "seek"

\* C9: the status, in the script and in the printed record, is success or
\* timeout; after a stall-guard firing (PID) or a contact loss in mpc (MPC) the
\* loop is still running, in approach resp. seek_lift.
C9_StatusDomain ==
    /\ status \in {"success", "timeout"}
    /\ line # <<>> => StatusField(line) \in {"success", "timeout"}
    /\ branch = "stall" => (pc = "loop" /\ phase = "approach")
    /\ (branch = "mpc" /\ contact(obs) < CONTACT_THRESH)
          => (pc = "loop" /\ state = "seek_lift")

\* a stall-guard firing has just sent push back to approach; the loop runs on
C9_Witness ==
    /\ variant = "pid" /\ branch = "stall" /\ pc = "loop" /\ phase = "approach"
    /\ status = "timeout"

\* C10: when the script has stopped, one record with status success or timeout
\* has been printed.
C10_RecordEmitted ==
    pc \in {"done", "crashed"} =>
        /\ line # <<>>
        /\ StatusField(line) \in {"success", "timeout"}

\* C11: MPC: an absent contact reading counts as force 0 and never stops the
\* trial: an iteration in seek whose step returns no reading stays in seek, an
\* iteration in mpc whose step returns no reading ends in seek_lift, and an
\* iteration that starts on an observation without reading keeps the loop
\* running or leaves it by the success or timeout exit.
C11_AbsentContactIsZero ==
    [][/\ (/\ variant = "mpc" /\ pc = "loop" /\ pc' = "loop" /\ state = "seek"
           /\ obs'.touch = Absent)
              => state' = "seek"
       /\ (/\ variant = "mpc" /\ pc = "loop" /\ pc' = "loop" /\ state = "mpc"
           /\ obs'.touch = Absent)
              => state' = "seek_lift"
       /\ (variant = "mpc" /\ pc = "loop" /\ obs.touch = Absent)
              => \/ pc' = "loop"
                 \/ pc' = "output" /\ status' \in {"success", "timeout"}
      ]_vars

\* an mpc iteration whose step returned no contact reading
C11_Witness ==
    /\ variant = "mpc" /\ pc = "loop" /\ branch = "mpc"
    /\ obs.touch = Absent /\ state = "seek_lift"

\* the phase of the running script
CurPhase == IF variant = "pid" THEN phase ELSE state

\* the distance of the end effector from the standoff pose behind the cube at
\* approach height
StandoffDist(o) ==
    Norm(Sub(o.ee, <<o.cube[1] - DirU(o, 500)[1], o.cube[2] - DirU(o, 500)[2],
                     TABLE_Z + 1500>>))

\* C12 as stated: in both variants an iteration in approach goes to lower if and
\* only if the end effector is, at its start, less than 0.004 m from the standoff
\* pose; under ideal motion the phase lower is eventually reached.
C12_LowerIffWithin4mm ==
    /\ [][(pc = "loop" /\ pc' = "loop" /\ CurPhase = "approach")
             => (CurPhase' = "lower" <=> StandoffDist(obs) < 40)]_vars
    /\ <>(CurPhase = "lower")

\* C12 amended: an iteration in approach goes to lower if and only if the end
\* effector is, at its start, less than 0.004 m (MPC) resp. 0.005 m (PID) from
\* the standoff pose; under ideal motion, from any start, the phase lower is
\* eventually reached unless the trial times out before.
C12_LowerIffWithinTol ==
    /\ [][(pc = "loop" /\ pc' = "loop" /\ CurPhase = "approach")
             => (CurPhase' = "lower"
                   <=> StandoffDist(obs) < (IF variant = "pid" THEN 50 ELSE 40))]_vars
    /\ <>(CurPhase = "lower" \/ (pc # "loop" /\ status = "timeout"))

\* PID has gone to lower from 4 mm or more: the step just made was the whole
\* remaining way to the standoff pose
C12_Witness ==
    /\ env = "ideal" /\ variant = "pid" /\ pc = "loop"
    /\ branch = "approach" /\ phase = "lower"
    /\ Norm(act) >= 40 /\ StandoffDist(obs) = 0

\* C13: the loop stops only by the success or the timeout exit, as its eventual
\* exit by one of the two requires, in both variants and from any phase; an
\* iteration whose elapsed time is above the budget dispatches no phase, so the
\* elapsed time of an iteration after which the loop runs on is within the budget.
C13_LoopExits ==
    /\ pc # "loop" => branch \in {"success", "timeout"}
    /\ (pc = "loop" /\ elapsed # None) => elapsed <= Budget

\* C15: in both variants, an iteration that does not leave the loop appends one
\* sample <<s, err>> for every second s from next_sample up to its elapsed time,
\* err being the error of that iteration, the first iteration included; after
\* it next_sample > elapsed.
C15_SamplesCaughtUp ==
    [][(pc = "loop" /\ pc' = "loop") =>
          /\ next_sample' * SubSec > elapsed'
          /\ Len(samples') = next_sample' - 1
          /\ \A i \in 1..Len(samples') :
                IF i <= Len(samples) THEN samples'[i] = samples[i]
                ELSE samples'[i] = <<i, Err(obs)>>]_vars

\* C16 as stated: in both variants every iteration that does not leave the loop
\* makes exactly one env.step call.
C16_OneStepPerIteration ==
    [][(pc = "loop" /\ pc' = "loop") => n_step' = 1]_vars

\* C16 amended: an iteration that does not leave the loop makes exactly one
\* env.step call, except the PID iterations that switch push -> approach, which
\* make none: they send no action and the next iteration starts on the same
\* observation.
C16_OneStepUnlessReapproach ==
    [][(pc = "loop" /\ pc' = "loop") =>
          IF variant = "pid" /\ phase = "push" /\ phase' = "approach"
          THEN n_step' = 0 /\ obs' = obs /\ act' = act
          ELSE n_step' = 1]_vars

\* the stall guard has sent push back to approach, without a step
C16_Witness ==
    /\ variant = "pid" /\ pc = "loop" /\ branch = "stall" /\ phase = "approach"
    /\ n_step = 0

\* C17: when the loop has been left, status "timeout" means that in the last
\* iteration the elapsed time was above the budget and the error not below
\* TOL_FINE, and status "success" that the error was below TOL_FINE, in both
\* variants.
C17_StatusSound ==
    pc \in {"output", "done"} =>
        /\ status = "timeout" => (elapsed > Budget /\ Err(obs) >= TOL_FINE)
        /\ status = "success" => Err(obs) < TOL_FINE

\* C18 as stated: PID: the iteration in which the stall guard sends push back to
\* approach leaves the stall window empty.
C18_StallClearsWindow ==
    [][(variant = "pid" /\ phase = "push" /\ phase' = "approach"
          /\ branch' = "stall") => stall_buf' = <<>>]_vars

\* C18 amended: PID: the iteration in which the stall guard sends push back to
\* approach leaves the stall window full, its newest entry being the error of
\* that iteration; the window is emptied by the iteration that goes from lower
\* to push, and by no other.
C18_WindowClearedOnPushEntry ==
    [][/\ (variant = "pid" /\ phase = "push" /\ phase' = "approach"
              /\ branch' = "stall")
          => (Len(stall_buf') = StallCap /\ stall_buf'[StallCap] = Err(obs))
       /\ (variant = "pid" /\ pc = "loop" /\ pc' = "loop")
          => (stall_buf' = <<>> <=> (phase = "lower" /\ phase' = "push"))]_vars

\* the stall guard has fired and the window still holds its samples
C18_Witness ==
    /\ variant = "pid" /\ pc = "loop" /\ branch = "stall" /\ phase = "approach"
    /\ Len(stall_buf) = StallCap /\ stall_buf[StallCap] = Err(obs)

\* C19: MPC: after every iteration that leaves the script in state mpc, prev_xy
\* is the cube position that iteration read, so that the next iteration, which
\* runs the mpc branch, estimates the velocity from the positions of two
\* consecutive iterations: on entry from seek and from mpc to mpc, hence also
\* after recovery cycles.
C19_PrevXYIsPreviousTick ==
    [][(variant = "mpc" /\ pc = "loop" /\ pc' = "loop" /\ state' = "mpc")
          => prev_xy' = obs.cube]_vars

\* mpc has been entered again from seek on a displaced cube: prev_xy is not the
\* initial position any more and differs from the position just returned
C19_Witness ==
    /\ variant = "mpc" /\ pc = "loop" /\ branch = "seek" /\ state = "mpc"
    /\ prev_xy # Obs0.cube /\ prev_xy # obs.cube

\* C20: PID: the stall window never holds more than STALL_TIME * control_freq
\* entries; every iteration that passes the timeout guard appends the current
\* error as the newest entry, evicting the oldest when the window is full and
\* keeping the others in order; only the iteration that goes from lower to push
\* empties it; the timeout exit leaves it as it is.
C20_StallWindowIsRing ==
    [][(variant = "pid" /\ pc = "loop") =>
          LET n == Len(stall_buf)
              m == Len(stall_buf')
          IN  /\ m <= STALL_TIME * control_freq
              /\ IF branch' = "timeout" THEN stall_buf' = stall_buf
                 ELSE IF phase = "lower" /\ phase' = "push" THEN m = 0
                 ELSE /\ m = (IF n < STALL_TIME * control_freq THEN n + 1 ELSE n)
                      /\ stall_buf'[m] = Err(obs)
                      /\ \A i \in 1..(m - 1) :
                            stall_buf'[i] = stall_buf[i + (n + 1 - m)]]_vars

\* a full window whose oldest entry, the initial error, has been evicted during
\* the first approach
C20_Witness ==
    /\ variant = "pid" /\ pc = "loop" /\ phase = "approach" /\ branch = "approach"
    /\ Len(stall_buf) = StallCap
    /\ stall_buf[1] # Err(Obs0) /\ stall_buf[1] # stall_buf[StallCap]

C22_StallWindowOfEpisode ==
    [][(variant = "pid" /\ pc = "loop") =>
          /\ (phase # "push" /\ phase' = "push")
                => (stall_buf' = <<>> /\ push_n' = 0)
          /\ (pc' = "loop" /\ phase' = "push") => Len(stall_buf') = push_n'
          /\ branch' = "stall"
                => (phase = "push" /\ push_n + 1 >= STALL_TIME * control_freq)
      ]_vars

\* the stall guard has fired on the capacity-th iteration of a push episode
\* whose first error was not the initial one
C22_Witness ==
    /\ variant = "pid" /\ pc = "loop" /\ branch = "stall" /\ push_n = 0
    /\ Len(stall_buf) = StallCap /\ stall_buf[1] # Err(Obs0)

=============================================================================
